---- MODULE Spec2Model ----
(***************************************************************************)
(* A model of the query-and-filter engine of views-forecast-api:           *)
(* ForecastQuery validation, ForecastService.parse_month_range and         *)
(* get_forecasts, DataLoader._load_data and get_forecasts, and the         *)
(* /forecasts route handler that ties them together.                       *)
(*                                                                         *)
(* Text is a sequence of characters (one-character strings; "U0663" stands *)
(* for the single non-ASCII decimal digit ARABIC-INDIC DIGIT THREE).       *)
(* Floats are integers in hundredths (60.0 is 6000, the probability 0.15   *)
(* is 15, so the upper limit 1 of a probability is 100).                   *)
(***************************************************************************)
EXTENDS Integers, Sequences, FiniteSets, TLC

VARIABLES
    data,      \* the rows the storage backend holds (DataLoader._load_local_data)
    columns,   \* the metric columns of the backend's frame (df.columns)
    cache,     \* DataLoader.cache: NoValue or the cached snapshot
    call,      \* the operation being answered and its arguments, or Idle
    reply,     \* what the operation returned or raised
    handlers   \* the requests the server is answering step by step: for
               \* each, the statement it is at and its local variables

vars == <<data, columns, cache, call, reply, handlers>>

\* Nothing: an empty cache, no result yet.
NoValue == [none |-> TRUE]

\* An optional argument: Python's None, or a string or list that was given.
None == [given |-> FALSE, v |-> <<>>]

Some(x) == [given |-> TRUE, v |-> x]

\* No operation is being answered.
Idle == [op |-> "idle"]

----------------------------------------------------------------------------
(* Bounds of the model.                                                    *)

\* The longest dataset, in rows.
MaxRows == 2

\* The longest month range that is expanded, in months after the start.
MaxSpan == 13

\* The longest list of metric constraints.
MaxConstraints == 2

----------------------------------------------------------------------------
(* Text.                                                                   *)

DigitChars == <<"0", "1", "2", "3", "4", "5", "6", "7", "8", "9">>

IsAsciiDigit(c) == \E i \in DOMAIN DigitChars : DigitChars[i] = c

\* str.isdigit / the regex class \d / int(): a decimal digit of any script.
IsDigitChar(c) == IsAsciiDigit(c) \/ c = "U0663"

DigitValue(c) ==
    IF c = "U0663" THEN 3
    ELSE (CHOOSE i \in DOMAIN DigitChars : DigitChars[i] = c) - 1

RECURSIVE ToInt(_)
ToInt(s) ==
    IF s = <<>> THEN 0
    ELSE 10 * ToInt(SubSeq(s, 1, Len(s) - 1)) + DigitValue(s[Len(s)])

RECURSIVE DecimalText(_)
DecimalText(n) ==
    IF n < 10 THEN <<DigitChars[n + 1]>>
    ELSE DecimalText(n \div 10) \o <<DigitChars[(n % 10) + 1]>>

TwoDigits(n) == <<DigitChars[(n \div 10) + 1], DigitChars[(n % 10) + 1]>>

\* str.isdigit(): non-empty and every character a digit.
isdigit(s) == s # <<>> /\ \A i \in DOMAIN s : IsDigitChar(s[i])

\* str.split(sep) for a one-character separator.
RECURSIVE split(_, _)
split(s, sep) ==
    IF \A i \in DOMAIN s : s[i] # sep THEN <<s>>
    ELSE LET i == CHOOSE k \in DOMAIN s :
                      s[k] = sep /\ \A j \in 1..(k - 1) : s[j] # sep
         IN  <<SubSeq(s, 1, i - 1)>> \o split(SubSeq(s, i + 1, Len(s)), sep)

----------------------------------------------------------------------------
(* Calendar months.                                                        *)

\* datetime.MAXYEAR: the last year a datetime can hold.
MAXYEAR == 9999

\* strftime("%Y-%m"): the year in decimal, a dash, the month in two digits.
strftime(y, m) == DecimalText(y) \o <<"-">> \o TwoDigits(m)

\* date.fromisoformat(f"{month}-01"): strictly YYYY-MM in ASCII digits, a year
\* from 1 to MAXYEAR and a month from 1 to 12. TRUE when it does not raise.
fromisoformat(s) ==
    /\ Len(s) = 7
    /\ s[5] = "-"
    /\ \A i \in {1, 2, 3, 4, 6, 7} : IsAsciiDigit(s[i])
    /\ ToInt(SubSeq(s, 1, 4)) \in 1..MAXYEAR
    /\ ToInt(SubSeq(s, 6, 7)) \in 1..12

\* datetime.strptime(f"{part}-01", "%Y-%m-%d"): %Y is four digits, %m one or
\* two digits naming 1..12 (1[0-2]|0[1-9]|[1-9]). The parsed year and month,
\* or ok = FALSE when it raises ValueError.
strptime(s) ==
    IF /\ Len(s) \in {6, 7}
       /\ s[5] = "-"
       /\ \A i \in DOMAIN s : i # 5 => IsDigitChar(s[i])
       /\ ToInt(SubSeq(s, 1, 4)) \in 1..MAXYEAR
       /\ ToInt(SubSeq(s, 6, Len(s))) \in 1..12
    THEN [ok |-> TRUE, year |-> ToInt(SubSeq(s, 1, 4)),
          month |-> ToInt(SubSeq(s, 6, Len(s)))]
    ELSE [ok |-> FALSE]

\* A ValueError raised with the given message.
ValueError(msg) == [ok |-> FALSE, error |-> "ValueError", detail |-> msg]

\* The while loop of parse_month_range from (cy, cm) up to (ey, em).
RECURSIVE ExpandLoop(_, _, _, _, _)
ExpandLoop(cy, cm, ey, em, months) ==
    IF cy < ey \/ (cy = ey /\ cm <= em)
    THEN LET appended == Append(months, strftime(cy, cm))
         IN  IF cm = 12
             THEN IF cy + 1 > MAXYEAR
                  THEN ValueError("year 10000 is out of range")
                  ELSE ExpandLoop(cy + 1, 1, ey, em, appended)
             ELSE ExpandLoop(cy, cm + 1, ey, em, appended)
    ELSE [ok |-> TRUE, value |-> months]

\* parse_month_range with the comparison of start and end left out.
parse_month_range_NoOrderCheck(month_range) ==
    LET parts == split(month_range, ":")
    IN  IF Len(parts) # 2 THEN ValueError("Invalid month range format")
        ELSE LET start_date == strptime(parts[1])
                 end_date == strptime(parts[2])
             IN  IF ~start_date.ok \/ ~end_date.ok
                 THEN ValueError("time data does not match format")
                 ELSE ExpandLoop(start_date.year, start_date.month,
                                 end_date.year, end_date.month, <<>>)

\* ForecastService.parse_month_range.
parse_month_range(month_range) ==
    LET parts == split(month_range, ":")
    IN  IF Len(parts) # 2 THEN ValueError("Invalid month range format")
        ELSE LET start_date == strptime(parts[1])
                 end_date == strptime(parts[2])
             IN  IF ~start_date.ok \/ ~end_date.ok
                 THEN ValueError("time data does not match format")
                 ELSE IF \/ start_date.year > end_date.year
                         \/ /\ start_date.year = end_date.year
                            /\ start_date.month > end_date.month
                 THEN ValueError("Start month must be before end month")
                 ELSE ExpandLoop(start_date.year, start_date.month,
                                 end_date.year, end_date.month, <<>>)

----------------------------------------------------------------------------
(* Inputs of the month-range calls.                                        *)

\* The calendar months the model writes out: two ordinary years around a
\* year boundary and the last year of the calendar.
Years == {2023, 2024, MAXYEAR}

YearMonths == Years \X (1..12)

MonthIndex(ym) == ym[1] * 12 + (ym[2] - 1)

MonthText(ym) == strftime(ym[1], ym[2])

\* start:end for two calendar months at most MaxSpan apart when in order.
RangeText(a, b) == MonthText(a) \o <<":">> \o MonthText(b)

RangePairs ==
    {p \in YearMonths \X YearMonths :
        MonthIndex(p[2]) - MonthIndex(p[1]) <= MaxSpan}

\* Range strings that are not two months joined by one colon; the last is
\* the empty string.
MalformedRanges ==
    { MonthText(<<2024, 1>>) \o <<"-">> \o MonthText(<<2024, 3>>),
      MonthText(<<2024, 1>>) \o <<":">> \o MonthText(<<2024, 2>>)
          \o <<":">> \o MonthText(<<2024, 3>>),
      MonthText(<<2024, 1>>),
      <<"2", "0", "2", "4", "-", "1", "3">> \o <<":">> \o MonthText(<<2024, 3>>),
      <<"2", "0", "2", "4", "-", "1">> \o <<":">>
          \o <<"2", "0", "2", "4", "-", "3">>,
      <<"a", ":", "b">>,
      <<>> }

----------------------------------------------------------------------------
(* The metric catalog and the record model.                                *)

\* ALL_METRIC_NAMES: the values of the MetricName enumeration, in order.
ALL_METRIC_NAMES ==
    <<"map", "ci_50_low", "ci_50_high", "ci_90_low", "ci_90_high",
      "ci_99_low", "ci_99_high", "prob_0", "prob_1", "prob_10", "prob_100",
      "prob_1000", "prob_10000">>

Range(s) == {s[i] : i \in DOMAIN s}

MetricName == Range(ALL_METRIC_NAMES)

\* The fields declared with le=1.
ProbabilityFields ==
    {"prob_0", "prob_1", "prob_10", "prob_100", "prob_1000", "prob_10000"}

\* LowFieldOf with the 90% upper bound looked up against the 50% lower bound.
LowFieldOf_Shifted ==
    [h \in {"ci_50_high", "ci_90_high", "ci_99_high"} |->
        IF h = "ci_99_high" THEN "ci_99_low" ELSE "ci_50_low"]

\* validate_ci_high's low_field table: upper bound -> lower bound.
LowFieldOf ==
    [h \in {"ci_50_high", "ci_90_high", "ci_99_high"} |->
        IF h = "ci_50_high" THEN "ci_50_low"
        ELSE IF h = "ci_90_high" THEN "ci_90_low" ELSE "ci_99_low"]

\* ForecastMetricsValid with the check that a metric is present left out.
ForecastMetricsValid_AllowEmpty(metrics_data) ==
    /\ \A k \in DOMAIN metrics_data : metrics_data[k] >= 0
    /\ \A k \in DOMAIN metrics_data \cap ProbabilityFields : metrics_data[k] <= 100
    /\ \A h \in DOMAIN metrics_data \cap DOMAIN LowFieldOf :
          LowFieldOf[h] \in DOMAIN metrics_data
              => metrics_data[h] >= metrics_data[LowFieldOf[h]]

\* ForecastMetricsValid with no upper limit on the probabilities.
ForecastMetricsValid_NoUpperLimit(metrics_data) ==
    /\ \A k \in DOMAIN metrics_data : metrics_data[k] >= 0
    /\ \A h \in DOMAIN metrics_data \cap DOMAIN LowFieldOf :
          LowFieldOf[h] \in DOMAIN metrics_data
              => metrics_data[h] >= metrics_data[LowFieldOf[h]]
    /\ DOMAIN metrics_data # {}

\* ForecastMetrics(**metrics_data) does not raise: every given field is >= 0,
\* every probability is <= 1, every given upper bound is >= its given lower
\* bound, and at least one field is given.
ForecastMetricsValid(metrics_data) ==
    /\ \A k \in DOMAIN metrics_data : metrics_data[k] >= 0
    /\ \A k \in DOMAIN metrics_data \cap ProbabilityFields : metrics_data[k] <= 100
    /\ \A h \in DOMAIN metrics_data \cap DOMAIN LowFieldOf :
          LowFieldOf[h] \in DOMAIN metrics_data
              => metrics_data[h] >= metrics_data[LowFieldOf[h]]
    /\ DOMAIN metrics_data # {}

\* ForecastMetrics(**kwargs): the object, or the ValidationError.
ForecastMetrics(kwargs) ==
    IF ForecastMetricsValid(kwargs) THEN [ok |-> TRUE, value |-> kwargs]
    ELSE [ok |-> FALSE, error |-> "ValidationError",
          detail |-> "validation error for ForecastMetrics"]

\* GridCellForecast(...) does not raise: the coordinates are in range.
GridCellForecastValid(record) ==
    /\ record.latitude >= -90 /\ record.latitude <= 90
    /\ record.longitude >= -180 /\ record.longitude <= 180

\* Compare with >= and <= taken for the strict comparisons.
Compare_Strict(operator, a, b) ==
    CASE operator = "gt" -> a > b
      [] operator = "gte" -> a > b
      [] operator = "lt" -> a < b
      [] operator = "lte" -> a < b

\* The comparison a ComparisonOperator member stands for.
Compare(operator, a, b) ==
    CASE operator = "gt" -> a > b
      [] operator = "gte" -> a >= b
      [] operator = "lt" -> a < b
      [] operator = "lte" -> a <= b

ComparisonOperator == {"gt", "gte", "lt", "lte"}

----------------------------------------------------------------------------
(* DataLoader.                                                             *)

\* Truthy with an empty string or list counted as set.
Truthy_GivenOnly(arg) == arg.given

\* Python truthiness of an optional string or list.
Truthy(arg) == arg.given /\ arg.v # <<>>

\* Series.isin(values).
isin(x, values) == \E i \in DOMAIN values : values[i] = x

\* DataLoader._load_data: the cached snapshot when the key is cached, else
\* the backend's frame, which is then cached.
load_data(cached, rows, cols) ==
    IF cached # NoValue THEN cached ELSE [rows |-> rows, columns |-> cols]

\* FilterCountry with the country comparison left out.
FilterCountry_Unfiltered(rows, country) == rows

\* df = df[df["country_id"] == country], when country is set.
FilterCountry(rows, country) ==
    IF Truthy(country)
    THEN LET keep(r) == r.country_id = country.v IN SelectSeq(rows, keep)
    ELSE rows

\* FilterGridIds with only the first matching row kept.
FilterGridIds_FirstOnly(rows, grid_ids) ==
    IF Truthy(grid_ids)
    THEN LET keep(r) == isin(r.grid_id, grid_ids.v)
             kept == SelectSeq(rows, keep)
         IN  IF kept = <<>> THEN kept ELSE <<Head(kept)>>
    ELSE rows

\* df = df[df["grid_id"].isin(grid_ids)], when grid_ids is set.
FilterGridIds(rows, grid_ids) ==
    IF Truthy(grid_ids)
    THEN LET keep(r) == isin(r.grid_id, grid_ids.v) IN SelectSeq(rows, keep)
    ELSE rows

\* df = df[df["month"].isin(months)], when months is set.
FilterMonths(rows, months) ==
    IF Truthy(months)
    THEN LET keep(r) == isin(r.month, months.v) IN SelectSeq(rows, keep)
    ELSE rows

\* One pass of the constraint loop: df = df[df[column] <op> constraint.value].
FilterConstraint(rows, constraint) ==
    LET keep(r) == Compare(constraint.operator, r.metrics[constraint.metric],
                           constraint.value)
    IN  SelectSeq(rows, keep)

\* The constraint loop from constraint i on: a column the frame does not have
\* raises ValueError, else the rows are narrowed and the loop goes on.
RECURSIVE ApplyConstraints(_, _, _, _)
ApplyConstraints(rows, cols, metric_constraints, i) ==
    IF i > Len(metric_constraints) THEN [ok |-> TRUE, value |-> rows]
    ELSE IF metric_constraints[i].metric \notin cols
    THEN ValueError("Metric is not available for filtering")
    ELSE ApplyConstraints(FilterConstraint(rows, metric_constraints[i]), cols,
                          metric_constraints, i + 1)

\* MetricsData with every column of the row taken, requested or not.
MetricsData_AllColumns(record, selected_metrics) == record.metrics

\* metrics_data = {name: record[name] for name in selected_metrics if name in record}
MetricsData(record, selected_metrics) ==
    [name \in Range(selected_metrics) \cap DOMAIN record.metrics |->
        record.metrics[name]]

\* The GridCellForecast built from one row.
BuildForecast(record, selected_metrics) ==
    [grid_id |-> record.grid_id,
     latitude |-> record.latitude,
     longitude |-> record.longitude,
     country_id |-> record.country_id,
     month |-> record.month,
     metrics |-> MetricsData(record, selected_metrics)]

\* BuildForecasts with the forecasts collected in reverse row order.
BuildForecasts_Reversed(rows, selected_metrics) ==
    IF \A i \in DOMAIN rows :
          /\ ForecastMetricsValid(MetricsData(rows[i], selected_metrics))
          /\ GridCellForecastValid(rows[i])
    THEN [ok |-> TRUE,
          value |-> [i \in DOMAIN rows |->
                        BuildForecast(rows[Len(rows) + 1 - i], selected_metrics)]]
    ELSE [ok |-> FALSE, error |-> "ValidationError",
          detail |-> "validation error for ForecastMetrics"]

\* The loop over df.iterrows(): the forecasts in row order, or the
\* ValidationError of the first row whose model construction fails.
BuildForecasts(rows, selected_metrics) ==
    IF \A i \in DOMAIN rows :
          /\ ForecastMetricsValid(MetricsData(rows[i], selected_metrics))
          /\ GridCellForecastValid(rows[i])
    THEN [ok |-> TRUE,
          value |-> [i \in DOMAIN rows |-> BuildForecast(rows[i], selected_metrics)]]
    ELSE [ok |-> FALSE, error |-> "ValidationError",
          detail |-> "validation error for ForecastMetrics"]

\* get_forecasts with the constraints applied to the projected row: a
\* constraint on a metric outside the projection is not looked at.
get_forecasts_AfterProjection(df, country, grid_ids, months, metrics, metric_constraints) ==
    LET selected_metrics == IF Truthy(metrics) THEN metrics.v ELSE ALL_METRIC_NAMES
        visible(c) == c.metric \in Range(selected_metrics)
        by_month == FilterMonths(FilterGridIds(FilterCountry(df.rows, country),
                                               grid_ids), months)
        constrained ==
            IF Truthy(metric_constraints)
            THEN ApplyConstraints(by_month, df.columns,
                                  SelectSeq(metric_constraints.v, visible), 1)
            ELSE [ok |-> TRUE, value |-> by_month]
    IN  IF ~constrained.ok THEN constrained
        ELSE BuildForecasts(constrained.value, selected_metrics)

\* DataLoader.get_forecasts on the frame df that _load_data returned.
get_forecasts(df, country, grid_ids, months, metrics, metric_constraints) ==
    LET by_country == FilterCountry(df.rows, country)
        by_grid == FilterGridIds(by_country, grid_ids)
        by_month == FilterMonths(by_grid, months)
        constrained ==
            IF Truthy(metric_constraints)
            THEN ApplyConstraints(by_month, df.columns, metric_constraints.v, 1)
            ELSE [ok |-> TRUE, value |-> by_month]
        selected_metrics == IF Truthy(metrics) THEN metrics.v ELSE ALL_METRIC_NAMES
    IN  IF ~constrained.ok THEN constrained
        ELSE BuildForecasts(constrained.value, selected_metrics)

----------------------------------------------------------------------------
(* ForecastQuery, ForecastService and the /forecasts route.                *)

\* A pydantic ValidationError (a subclass of ValueError).
ValidationError(msg) == [ok |-> FALSE, error |-> "ValidationError", detail |-> msg]

\* ForecastQuery.validate_country does not raise.
validate_country(v) ==
    IF ~Truthy(v) THEN TRUE
    ELSE ~(~isdigit(v.v) \/ Len(v.v) # 3)

\* validate_months with each month parsed as strptime parses it.
validate_months_Lenient(v) ==
    Truthy(v) => \A i \in DOMAIN v.v : strptime(v.v[i]).ok

\* ForecastQuery.validate_months does not raise.
validate_months(v) ==
    Truthy(v) => \A i \in DOMAIN v.v : fromisoformat(v.v[i])

\* ForecastQuery.validate_month_range does not raise.
validate_month_range(v) ==
    Truthy(v) =>
        LET parts == split(v.v, ":")
        IN  /\ Len(parts) = 2
            /\ \A i \in DOMAIN parts : fromisoformat(parts[i])

\* The loop of deduplicate_metrics: append each metric not yet in unique.
RECURSIVE DedupLoop(_, _)
DedupLoop(v, unique) ==
    IF v = <<>> THEN unique
    ELSE DedupLoop(Tail(v),
                   IF isin(Head(v), unique) THEN unique
                   ELSE Append(unique, Head(v)))

\* deduplicate_metrics with the last occurrence of each metric kept instead
\* of the first.
deduplicate_metrics_KeepLast(v) ==
    IF ~Truthy(v) THEN v
    ELSE LET keep == {i \in DOMAIN v.v :
                         \A j \in DOMAIN v.v : j > i => v.v[j] # v.v[i]}
         IN  Some([k \in 1..Cardinality(keep) |->
                     v.v[CHOOSE i \in keep :
                            Cardinality({j \in keep : j <= i}) = k]])

\* ForecastQuery.deduplicate_metrics.
deduplicate_metrics(v) ==
    IF ~Truthy(v) THEN v ELSE Some(DedupLoop(v.v, <<>>))

\* ForecastQuery(**kwargs): the validated query, or the ValidationError. The
\* model declares no metric_filters field and ignores keyword arguments it
\* does not declare, so kwargs.metric_filters is dropped.
ForecastQuery(kwargs) ==
    IF /\ validate_country(kwargs.country)
       /\ validate_months(kwargs.months)
       /\ validate_month_range(kwargs.month_range)
       /\ kwargs.metrics.given
             => \A i \in DOMAIN kwargs.metrics.v : kwargs.metrics.v[i] \in MetricName
    THEN [ok |-> TRUE,
          value |-> [country |-> kwargs.country,
                     grid_ids |-> kwargs.grid_ids,
                     months |-> kwargs.months,
                     month_range |-> kwargs.month_range,
                     metrics |-> deduplicate_metrics(kwargs.metrics),
                     format |-> kwargs.format]]
    ELSE ValidationError("validation error for ForecastQuery")

\* list(S) for a set S: its elements in some order.
RECURSIVE SetToSeq(_)
SetToSeq(S) ==
    IF S = {} THEN <<>>
    ELSE LET x == CHOOSE y \in S : TRUE IN <<x>> \o SetToSeq(S \ {x})

\* MonthsFilter with the two month lists intersected.
MonthsFilter_Intersection(months, range_months) ==
    IF Truthy(months)
    THEN Some(SetToSeq(Range(months.v) \cap Range(range_months)))
    ELSE Some(range_months)

\* The month filter ForecastService.get_forecasts hands to the repository,
\* given the expansion of the query's month_range.
MonthsFilter(months, range_months) ==
    IF Truthy(months)
    THEN Some(SetToSeq(Range(months.v) \cup Range(range_months)))
    ELSE Some(range_months)

\* The status the /forecasts handler answers with for a result or an
\* exception of the service: a ValueError (ValidationError is one) becomes
\* 400, any other exception 500.
HandlerStatus(result) ==
    IF result.ok THEN 200
    ELSE IF result.error \in {"ValueError", "ValidationError"} THEN 400
    ELSE 500

\* ForecastService.get_forecasts(query) with the cache as it stands:
\* the result (or the exception) and the cache afterwards.
service_get_forecasts(query, cached, rows, cols) ==
    LET range ==
            IF Truthy(query.month_range)
            THEN parse_month_range(query.month_range.v)
            ELSE [ok |-> TRUE, value |-> <<>>]
        months_filter ==
            IF Truthy(query.month_range)
            THEN MonthsFilter(query.months, range.value)
            ELSE query.months
        df == load_data(cached, rows, cols)
    IN  IF ~range.ok THEN [reply |-> range, cache |-> cached]
        ELSE [reply |-> get_forecasts(df, query.country, query.grid_ids,
                                      months_filter, query.metrics, None),
              cache |-> df]

\* The /forecasts handler for one request: the HTTP response and the cache
\* afterwards. FastAPI answers 422 to a metrics entry outside MetricName
\* before the handler runs, and drops query parameters the handler does not
\* declare (metric_filters). In the handler a ValueError becomes 400.
route_get_forecasts(request, cached, rows, cols) ==
    IF /\ request.metrics.given
       /\ \E i \in DOMAIN request.metrics.v : request.metrics.v[i] \notin MetricName
    THEN [reply |-> [status |-> 422], cache |-> cached]
    ELSE LET query == ForecastQuery(
                 [country |-> request.country, grid_ids |-> request.grid_ids,
                  months |-> request.months, month_range |-> request.month_range,
                  metrics |-> request.metrics, format |-> request.format])
         IN  IF ~query.ok
             THEN [reply |-> [status |-> 400, detail |-> query.detail],
                   cache |-> cached]
             ELSE LET got == service_get_forecasts(query.value, cached, rows, cols)
                  IN  IF ~got.reply.ok
                      THEN [reply |-> [status |-> 400, detail |-> got.reply.detail],
                            cache |-> got.cache]
                      ELSE [reply |-> [status |-> 200,
                                       media |-> IF request.format = "ndjson"
                                                 THEN "application/x-ndjson"
                                                 ELSE "application/json",
                                       data |-> got.reply.value,
                                       count |-> Len(got.reply.value)],
                            cache |-> got.cache]

----------------------------------------------------------------------------
(* ForecastService.get_forecast_summary.                                   *)

\* A Python int, and a Python list, where a result holds either.
PyInt(n) == [int |-> n]

PyList(items) == [list |-> items]

\* A TypeError raised with the given message.
TypeError(msg) == [ok |-> FALSE, error |-> "TypeError", detail |-> msg]

\* The characters of country codes and months in code point order.
CodePoints == <<"-", "0", "1", "2", "3", "4", "5", "6", "7", "8", "9">>

CodePoint(c) == CHOOSE i \in DOMAIN CodePoints : CodePoints[i] = c

\* a < b for two Python strings: at the first position where they differ, or
\* a is a proper prefix of b.
RECURSIVE TextLess(_, _)
TextLess(a, b) ==
    IF b = <<>> THEN FALSE
    ELSE IF a = <<>> THEN TRUE
    ELSE IF Head(a) = Head(b) THEN TextLess(Tail(a), Tail(b))
    ELSE CodePoint(Head(a)) < CodePoint(Head(b))

\* sorted(S) for a set of strings.
RECURSIVE sorted(_)
sorted(S) ==
    IF S = {} THEN <<>>
    ELSE LET least == CHOOSE x \in S : \A y \in S \ {x} : TextLess(x, y)
         IN  <<least>> \o sorted(S \ {least})

\* hasattr(forecast.metrics, name): a ForecastMetrics object has every
\* declared field as an attribute, None when the field was not given.
hasattr(metrics, name) == name \in MetricName

\* forecast.metrics.map is None.
MapIsNone(forecast) == "map" \notin DOMAIN forecast.metrics

\* round(total / n, 2) for a total in hundredths: the nearest hundredth, the
\* even one when two are as near.
RoundDiv(total, n) ==
    LET q == total \div n
        r == total % n
    IN  IF 2 * r < n THEN q
        ELSE IF 2 * r > n THEN q + 1
        ELSE IF q % 2 = 0 THEN q ELSE q + 1

RECURSIVE Sum(_)
Sum(values) == IF values = <<>> THEN 0 ELSE Head(values) + Sum(Tail(values))

Min(S) == CHOOSE x \in S : \A y \in S : x <= y

Max(S) == CHOOSE x \in S : \A y \in S : x >= y

\* len(grid_cells) for the set the loop adds every forecast.grid_id to.
grid_cells(forecasts) ==
    Cardinality({forecasts[i].grid_id : i \in DOMAIN forecasts})

\* ForecastService.get_forecast_summary: the summary, or the TypeError of
\* total_map += forecast.metrics.map for the first record whose map is None.
get_forecast_summary(forecasts) ==
    IF forecasts = <<>>
    THEN [ok |-> TRUE,
          value |-> [count |-> 0, countries |-> <<>>, months |-> <<>>,
                     grid_cells |-> PyList(<<>>)]]
    ELSE IF \E i \in DOMAIN forecasts :
               hasattr(forecasts[i].metrics, "map") /\ MapIsNone(forecasts[i])
    THEN TypeError("unsupported operand type(s) for +=: 'int' and 'NoneType'")
    ELSE LET counted == SelectSeq(forecasts, LAMBDA f : hasattr(f.metrics, "map"))
             maps == [i \in DOMAIN counted |-> counted[i].metrics["map"]]
         IN  [ok |-> TRUE,
              value |->
                 [count |-> Len(forecasts),
                  countries |-> sorted({forecasts[i].country_id : i \in DOMAIN forecasts}),
                  months |-> sorted({forecasts[i].month : i \in DOMAIN forecasts}),
                  grid_cells |-> PyInt(grid_cells(forecasts)),
                  metrics_summary |->
                     [avg_map |-> RoundDiv(Sum(maps), Len(forecasts)),
                      min_map |-> IF maps = <<>> THEN 0 ELSE Min(Range(maps)),
                      max_map |-> IF maps = <<>> THEN 0 ELSE Max(Range(maps))]]]

----------------------------------------------------------------------------
(* DataLoader.get_available_months and get_grid_cells.                     *)

\* Series.unique(): the distinct values in order of first appearance.
RECURSIVE unique(_, _)
unique(values, seen) ==
    IF values = <<>> THEN seen
    ELSE unique(Tail(values),
                IF isin(Head(values), seen) THEN seen
                ELSE Append(seen, Head(values)))

\* DataLoader.get_available_months on the frame df that _load_data returned:
\* one entry per month of the frame, sorted by month.
get_available_months(df) ==
    LET months == sorted({df.rows[i].month : i \in DOMAIN df.rows})
    IN  [ok |-> TRUE,
         value |->
            [k \in DOMAIN months |->
                LET keep(r) == r.month = months[k]
                    month_df == SelectSeq(df.rows, keep)
                IN  [month |-> months[k],
                     forecast_count |-> Len(month_df),
                     countries |->
                        unique([i \in DOMAIN month_df |-> month_df[i].country_id],
                               <<>>)]]]

\* The group key of a row in get_grid_cells.
CellKey(r) ==
    [grid_id |-> r.grid_id, latitude |-> r.latitude, longitude |-> r.longitude,
     country_id |-> r.country_id]

\* The order in which groupby sorts its group keys.
KeyLess(a, b) ==
    \/ a.grid_id < b.grid_id
    \/ a.grid_id = b.grid_id /\ a.latitude < b.latitude
    \/ a.grid_id = b.grid_id /\ a.latitude = b.latitude /\ a.longitude < b.longitude
    \/ /\ a.grid_id = b.grid_id /\ a.latitude = b.latitude
       /\ a.longitude = b.longitude /\ TextLess(a.country_id, b.country_id)

\* The group keys in that order.
RECURSIVE SortedKeys(_)
SortedKeys(K) ==
    IF K = {} THEN <<>>
    ELSE LET k == CHOOSE x \in K : \A y \in K \ {x} : KeyLess(x, y)
         IN  <<k>> \o SortedKeys(K \ {k})

\* DataLoader.get_grid_cells on the frame df that _load_data returned: one
\* cell per group of rows with the same grid id, coordinates and country.
get_grid_cells(df, country) ==
    LET rows == FilterCountry(df.rows, country)
    IN  [ok |-> TRUE,
         value |-> SortedKeys({CellKey(rows[i]) : i \in DOMAIN rows})]

\* The rows get_forecasts has narrowed df to when it reaches the projection,
\* or the ValueError of the constraint loop.
FilteredRows(df, country, grid_ids, months, metric_constraints) ==
    LET by_month == FilterMonths(FilterGridIds(FilterCountry(df.rows, country),
                                               grid_ids), months)
    IN  IF Truthy(metric_constraints)
        THEN ApplyConstraints(by_month, df.columns, metric_constraints.v, 1)
        ELSE [ok |-> TRUE, value |-> by_month]

\* A KeyError: self.cache[cache_key] on an entry that is no longer there.
KeyError == [ok |-> FALSE, error |-> "KeyError", detail |-> "cache_key"]

\* CacheHit for a cache that never holds the key.
CacheHit_Never(cached) == FALSE

\* cache_key in self.cache.
CacheHit(cached) == cached # NoValue

----------------------------------------------------------------------------
(* verify_api_key, the dependency of every data route.                     *)

\* An HTTPException raised with the given status and detail.
HTTPException(status_code, detail) ==
    [ok |-> FALSE, status |-> status_code, detail |-> detail]

\* verify_api_key with any header accepted once one is sent.
verify_api_key_AnyHeader(api_key, x_api_key) ==
    IF ~Truthy(api_key) THEN [ok |-> TRUE, value |-> TRUE]
    ELSE IF ~Truthy(x_api_key) THEN HTTPException(401, "API key required")
    ELSE [ok |-> TRUE, value |-> TRUE]

\* verify_api_key(x_api_key) with settings.api_key = api_key.
verify_api_key(api_key, x_api_key) ==
    IF ~Truthy(api_key) THEN [ok |-> TRUE, value |-> TRUE]
    ELSE IF ~Truthy(x_api_key) THEN HTTPException(401, "API key required")
    ELSE IF x_api_key.v # api_key.v THEN HTTPException(401, "Invalid API key")
    ELSE [ok |-> TRUE, value |-> TRUE]

\* A request to a route that depends on verify_api_key: the handler runs only
\* when the dependency returns, and its exception is the response otherwise.
protected_route(api_key, x_api_key) ==
    LET verified == verify_api_key(api_key, x_api_key)
    IN  IF verified.ok
        THEN [status |-> 200, detail |-> "", handled |-> TRUE]
        ELSE [status |-> verified.status, detail |-> verified.detail,
              handled |-> FALSE]

----------------------------------------------------------------------------
(* The metric filter expression parser: <metric_name><operator><value>.    *)

\* The spelling of each catalog metric.
NameText ==
    [map |-> <<"m", "a", "p">>,
     ci_50_low |-> <<"c", "i", "_", "5", "0", "_", "l", "o", "w">>,
     ci_50_high |-> <<"c", "i", "_", "5", "0", "_", "h", "i", "g", "h">>,
     ci_90_low |-> <<"c", "i", "_", "9", "0", "_", "l", "o", "w">>,
     ci_90_high |-> <<"c", "i", "_", "9", "0", "_", "h", "i", "g", "h">>,
     ci_99_low |-> <<"c", "i", "_", "9", "9", "_", "l", "o", "w">>,
     ci_99_high |-> <<"c", "i", "_", "9", "9", "_", "h", "i", "g", "h">>,
     prob_0 |-> <<"p", "r", "o", "b", "_", "0">>,
     prob_1 |-> <<"p", "r", "o", "b", "_", "1">>,
     prob_10 |-> <<"p", "r", "o", "b", "_", "1", "0">>,
     prob_100 |-> <<"p", "r", "o", "b", "_", "1", "0", "0">>,
     prob_1000 |-> <<"p", "r", "o", "b", "_", "1", "0", "0", "0">>,
     prob_10000 |-> <<"p", "r", "o", "b", "_", "1", "0", "0", "0", "0">>]

\* float(text): an optional sign, digits with at most one point among them
\* and at least one digit. The value in hundredths (inputs carry at most two
\* fraction digits), or ok = FALSE when float() raises.
ParseFloat(text) ==
    LET signed == text # <<>> /\ text[1] \in {"-", "+"}
        body == IF signed THEN Tail(text) ELSE text
        parts == split(body, ".")
        whole == parts[1]
        fraction == IF Len(parts) = 2 THEN parts[2] ELSE <<>>
        magnitude ==
            100 * ToInt(whole)
                + (IF Len(fraction) = 1 THEN 10 * ToInt(fraction) ELSE ToInt(fraction))
    IN  IF /\ Len(parts) \in {1, 2}
           /\ \A i \in DOMAIN whole : IsDigitChar(whole[i])
           /\ \A i \in DOMAIN fraction : IsDigitChar(fraction[i])
           /\ Len(whole) + Len(fraction) >= 1
        THEN [ok |-> TRUE,
              value |-> IF signed /\ text[1] = "-" THEN 0 - magnitude ELSE magnitude]
        ELSE [ok |-> FALSE]

ComparisonChars == {">", "<", "="}

\* OperatorAt with the one-character operators tried first.
OperatorAt_SingleFirst(expr, i) ==
    [text |-> <<expr[i]>>, member |-> IF expr[i] = ">" THEN "gt" ELSE "lt"]

\* The operator that starts at position i of the expression: a two-character
\* operator is tried before its one-character prefix.
OperatorAt(expr, i) ==
    IF i < Len(expr) /\ expr[i] \in {">", "<"} /\ expr[i + 1] = "="
    THEN [text |-> SubSeq(expr, i, i + 1),
          member |-> IF expr[i] = ">" THEN "gte" ELSE "lte"]
    ELSE [text |-> <<expr[i]>>,
          member |-> IF expr[i] = ">" THEN "gt" ELSE "lt"]

\* Parse one metric filter expression into a MetricConstraint, or fail with
\* InvalidFilterSyntax (no single operator separates a name from a value),
\* UnknownMetric (the name is not in the catalog) or InvalidFilterValue (the
\* value is not a float).
parse_metric_filter(expr) ==
    IF \A i \in DOMAIN expr : expr[i] \notin {">", "<"}
    THEN [ok |-> FALSE, error |-> "InvalidFilterSyntax"]
    ELSE LET i == CHOOSE k \in DOMAIN expr :
                      /\ expr[k] \in {">", "<"}
                      /\ \A j \in 1..(k - 1) : expr[j] \notin {">", "<"}
             operator == OperatorAt(expr, i)
             name == SubSeq(expr, 1, i - 1)
             text == SubSeq(expr, i + Len(operator.text), Len(expr))
             value == ParseFloat(text)
         IN  IF \/ \E j \in DOMAIN text : text[j] \in ComparisonChars
                \/ \E j \in DOMAIN name : name[j] \in ComparisonChars
             THEN [ok |-> FALSE, error |-> "InvalidFilterSyntax"]
             ELSE IF \A m \in MetricName : NameText[m] # name
             THEN [ok |-> FALSE, error |-> "UnknownMetric"]
             ELSE IF ~value.ok
             THEN [ok |-> FALSE, error |-> "InvalidFilterValue"]
             ELSE [ok |-> TRUE,
                   value |-> [metric |-> CHOOSE m \in MetricName : NameText[m] = name,
                              operator |-> operator.member,
                              value |-> value.value]]

----------------------------------------------------------------------------
(* Datasets and the arguments of repository calls.                         *)

C074 == <<"0", "7", "4">>

C800 == <<"8", "0", "0">>

\* A code no row of the pool carries.
C404 == <<"4", "0", "4">>

\* The three rows of the repository fixture of tests/test_services.py and a
\* fourth row that breaks the record invariants (prob_0 above 1, ci_50_low
\* below 0 and ci_99_high below ci_99_low, with prob_1 at the limit of 1) in
\* the month before the fixture's first.
RowPool ==
    { [grid_id |-> 1, latitude |-> 11, longitude |-> 14, country_id |-> C074,
       month |-> MonthText(<<2024, 1>>),
       metrics |-> [map |-> 6000, ci_50_low |-> 4500, ci_50_high |-> 7500,
                    ci_90_low |-> 3000, ci_90_high |-> 9000,
                    ci_99_low |-> 2500, ci_99_high |-> 10500,
                    prob_0 |-> 10, prob_1 |-> 90, prob_10 |-> 50,
                    prob_100 |-> 20, prob_1000 |-> 15, prob_10000 |-> 5]],
      [grid_id |-> 1, latitude |-> 11, longitude |-> 14, country_id |-> C074,
       month |-> MonthText(<<2024, 2>>),
       metrics |-> [map |-> 4000, ci_50_low |-> 3000, ci_50_high |-> 5000,
                    ci_90_low |-> 2000, ci_90_high |-> 6000,
                    ci_99_low |-> 1500, ci_99_high |-> 7000,
                    prob_0 |-> 20, prob_1 |-> 80, prob_10 |-> 30,
                    prob_100 |-> 10, prob_1000 |-> 5, prob_10000 |-> 1]],
      [grid_id |-> 2, latitude |-> -1, longitude |-> 32, country_id |-> C800,
       month |-> MonthText(<<2024, 1>>),
       metrics |-> [map |-> 1500, ci_50_low |-> 1000, ci_50_high |-> 2000,
                    ci_90_low |-> 500, ci_90_high |-> 2500,
                    ci_99_low |-> 200, ci_99_high |-> 3000,
                    prob_0 |-> 40, prob_1 |-> 60, prob_10 |-> 20,
                    prob_100 |-> 5, prob_1000 |-> 1, prob_10000 |-> 0]],
      [grid_id |-> 3, latitude |-> -1, longitude |-> 33, country_id |-> C800,
       month |-> MonthText(<<2023, 12>>),
       metrics |-> [map |-> 7000, ci_50_low |-> -1000, ci_50_high |-> 8000,
                    ci_90_low |-> 5000, ci_90_high |-> 9000,
                    ci_99_low |-> 4000, ci_99_high |-> 3000,
                    prob_0 |-> 150, prob_1 |-> 100, prob_10 |-> 30,
                    prob_100 |-> 10, prob_1000 |-> 5, prob_10000 |-> 1]] }

\* The frames a backend can hand over: every metric column, or all but one
\* (a parquet file is read as it is, whatever its columns).
ColumnSets == {MetricName, MetricName \ {"prob_10"}}

WithColumns(row, cols) ==
    [row EXCEPT !.metrics = [k \in cols |-> row.metrics[k]]]

Datasets(cols) ==
    UNION {[1..n -> {WithColumns(r, cols) : r \in RowPool}] : n \in 0..MaxRows}

SeqsUpTo(S, n) == UNION {[1..k -> S] : k \in 0..n}

CountryArgs == {None, Some(<<>>), Some(C074), Some(C800), Some(C404)}

GridIdArgs == {None, Some(<<>>), Some(<<1>>), Some(<<2, 3>>)}

MonthArgs ==
    {None, Some(<<>>), Some(<<MonthText(<<2024, 1>>)>>),
     Some(<<MonthText(<<2023, 12>>), MonthText(<<2024, 2>>)>>)}

\* The metric constraints the calls draw from: every operator against the
\* map value of a fixture row, and two against a probability.
ConstraintPool ==
    [metric : {"map"}, operator : ComparisonOperator, value : {4000}]
        \cup [metric : {"prob_10"}, operator : {"gte", "lt"}, value : {30}]

\* Calls that filter by country, grid ids and months.
FilterArgs ==
    [country : CountryArgs, grid_ids : GridIdArgs, months : MonthArgs,
     metrics : {None, Some(<<"map", "prob_10">>)},
     metric_constraints : {None}]

\* Calls that filter by metric constraints.
ConstraintArgs ==
    [country : {None}, grid_ids : {None}, months : {None},
     metrics : {None, Some(<<"map">>), Some(<<"prob_10">>)},
     metric_constraints :
        {None} \cup {Some(c) : c \in SeqsUpTo(ConstraintPool, MaxConstraints)}]

\* Calls that combine a country and a metric constraint with grid ids and
\* months.
MixedArgs ==
    [country : {Some(C074), Some(C800)},
     grid_ids : {None, Some(<<1>>)},
     months : {None, Some(<<MonthText(<<2024, 1>>)>>)},
     metrics : {None},
     metric_constraints :
        {Some(<<[metric |-> "map", operator |-> "gte", value |-> 4000]>>),
         Some(<<[metric |-> "prob_10", operator |-> "lt", value |-> 30]>>)}]

\* Calls that only project, onto one field or onto the bounds of one level.
ProjectionArgs ==
    [country : {None}, grid_ids : {None}, months : {None},
     metrics : {Some(<<"prob_0">>), Some(<<"prob_1">>), Some(<<"prob_10000">>),
                Some(<<"ci_50_low">>), Some(<<"ci_99_low", "ci_99_high">>)},
     metric_constraints : {None}]

\* The most requests the server has accepted and not yet answered.
MaxRequests == 2

Handlers == 1..MaxRequests

\* The frames the backend of the server holds over time: one of the two
\* fixture rows of January 2024.
ServerDatasets ==
    {d \in Datasets(MetricName) :
        Len(d) = 1 /\ d[1].month = MonthText(<<2024, 1>>)}

NoArgs ==
    [country |-> None, grid_ids |-> None, months |-> None, metrics |-> None,
     metric_constraints |-> None]

\* The repository calls the handlers make: get_forecasts for one country,
\* get_available_months, and get_grid_cells.
ServerCalls ==
    {[op |-> "get_forecasts", args |-> [NoArgs EXCEPT !.country = Some(C800)]],
     [op |-> "get_available_months", args |-> NoArgs],
     [op |-> "get_grid_cells", args |-> NoArgs]}

\* The longest API key, configured or sent.
MaxKeyLen == 2

\* The keys: texts over a lower-case letter, the same letter in upper case
\* and a digit.
KeyTexts == SeqsUpTo({"s", "S", "1"}, MaxKeyLen)

\* settings.api_key and the X-API-Key header: absent, or one of the keys (the
\* empty text among them).
KeyArgs == {None} \cup {Some(k) : k \in KeyTexts}

\* The longest metrics list a ForecastQuery is constructed with directly.
MaxMetrics == 4

\* The entries of those lists: three metric names and a name outside
\* MetricName.
MetricPool == {"map", "prob_1", "ci_50_low", "invalid_metric"}

\* The keyword arguments of the direct constructions of ForecastQuery: only
\* metrics is given.
QueryInputs ==
    {[country |-> None, grid_ids |-> None, months |-> None,
      month_range |-> None, metrics |-> m, format |-> "json"] :
        m \in {None} \cup {Some(l) : l \in SeqsUpTo(MetricPool, MaxMetrics)}}

\* The most fields a ForecastMetrics is constructed with directly.
MaxFields == 2

\* Field values in hundredths: -1.0, 0, 0.5, 1.0 and 1.5.
FieldValues == {-100, 0, 50, 100, 150}

\* The keyword arguments of the direct constructions: up to MaxFields of the
\* 13 fields, each with one of the values.
MetricsInputs ==
    UNION {[D -> FieldValues] :
              D \in {E \in SUBSET MetricName : Cardinality(E) <= MaxFields}}

\* The longest list of forecasts that is summarised.
MaxForecasts == 2

\* The projections the summarised forecasts were built with.
Projections == {ALL_METRIC_NAMES, <<"map">>, <<"prob_10">>}

\* The records get_forecasts can build from the rows of the pool.
ForecastPool ==
    {BuildForecast(r, p) : <<r, p>> \in
        {x \in RowPool \X Projections :
            /\ ForecastMetricsValid(MetricsData(x[1], x[2]))
            /\ GridCellForecastValid(x[1])}}

ForecastLists == SeqsUpTo(ForecastPool, MaxForecasts)

----------------------------------------------------------------------------
(* Requests to the /forecasts route and inputs of the expression parser.   *)

\* The longest country string a request carries.
MaxCountryLen == 3

\* The characters of country strings: two ASCII digits, a letter and a
\* decimal digit that is not ASCII.
CountryChars == {"0", "8", "a", "U0663"}

CountryTexts == SeqsUpTo(CountryChars, MaxCountryLen) \cup {C074}

BaseRequest ==
    [country |-> None, grid_ids |-> None, months |-> None, month_range |-> None,
     metrics |-> None, metric_filters |-> None, format |-> "json"]

\* Requests that set only the country.
CountryRequests ==
    {[BaseRequest EXCEPT !.country = c] :
        c \in {None} \cup {Some(t) : t \in CountryTexts}}

\* The month lists of the repository calls, and lists with an entry that is
\* no calendar month: month 13, month 00 and a month written with one digit.
RouteMonthArgs ==
    MonthArgs \cup {Some(<<<<"2", "0", "2", "4", "-", "1", "3">>>>),
                    Some(<<MonthText(<<2024, 1>>), <<"2", "0", "2", "4", "-", "0", "0">>>>),
                    Some(<<<<"2", "0", "2", "4", "-", "1">>>>)}

\* None, the empty string, ranges in order (one across a year boundary, one
\* of a single month, one ending in the last month of the calendar), two
\* reversed ranges, and the strings of MalformedRanges: no colon, two colons,
\* a part that is no calendar month.
MonthRangeArgs ==
    {None, Some(<<>>),
     Some(RangeText(<<2023, 12>>, <<2024, 1>>)),
     Some(RangeText(<<2024, 2>>, <<2024, 2>>)),
     Some(RangeText(<<MAXYEAR, 12>>, <<MAXYEAR, 12>>)),
     Some(RangeText(<<2024, 2>>, <<2024, 1>>)),
     Some(RangeText(<<2024, 1>>, <<2023, 12>>)),
     Some(MonthText(<<2024, 1>>) \o <<"-">> \o MonthText(<<2024, 6>>))}
        \cup {Some(text) : text \in MalformedRanges}

\* Requests that set months, month_range and possibly the country.
MonthRequests ==
    {[BaseRequest EXCEPT !.months = m, !.month_range = r, !.country = c] :
        m \in RouteMonthArgs, r \in MonthRangeArgs, c \in {None, Some(C800)}}

\* map>50, map>>50 and unknown>5, as in tests/test_services.py and
\* tests/test_api.py.
MetricFilterArgs ==
    {None,
     Some(<<<<"m", "a", "p", ">", "5", "0">>>>),
     Some(<<<<"m", "a", "p", ">", ">", "5", "0">>>>),
     Some(<<<<"u", "n", "k", "n", "o", "w", "n", ">", "5">>>>)}

\* Requests that set metric_filters, metrics, grid_ids and the format.
MetricRequests ==
    {[BaseRequest EXCEPT !.metric_filters = f, !.metrics = m, !.grid_ids = g,
                         !.format = fmt] :
        f \in MetricFilterArgs,
        m \in {None, Some(<<"map">>), Some(<<"map", "map", "prob_1">>),
               Some(<<"invalid_metric">>)},
        g \in {None, Some(<<1>>)},
        fmt \in {"json", "ndjson"}}

Requests == CountryRequests \cup MonthRequests \cup MetricRequests

\* Expressions name \o operator \o value over these parts.
FilterNames == {NameText["map"], NameText["prob_10"], <<"b", "o", "g", "u", "s">>, <<>>}

FilterOperators ==
    {<<">">>, <<">", "=">>, <<"<">>, <<"<", "=">>, <<">", ">">>, <<"=">>, <<>>,
     <<"=", ">">>, <<"<", ">">>}

FilterValues ==
    {<<"5", "0">>, <<"0", ".", "1">>, <<"5", "0", ".", "0">>, <<"-", "5">>, <<"n", "o", "t", "a", "n", "u", "m", "b", "e", "r">>, <<>>}

FilterExpressions ==
    {n \o o \o v : n \in FilterNames, o \in FilterOperators, v \in FilterValues}

----------------------------------------------------------------------------
(* Operations.                                                             *)

\* A handler that is answering no request.
IdleHandler ==
    [pc |-> "idle", op |-> "none", args |-> NoArgs, missed |-> FALSE,
     df |-> NoValue, rows |-> <<>>, snapshots |-> <<>>,
     expired_during |-> FALSE, reply |-> NoValue]

\* service.parse_month_range(month_range), called directly.
ParseMonthRange ==
    /\ call = Idle
    /\ \E text \in {RangeText(p[1], p[2]) : p \in RangePairs} \cup MalformedRanges :
          /\ call' = [op |-> "parse_month_range", month_range |-> text]
          /\ reply' = parse_month_range(text)
    /\ UNCHANGED <<data, columns, cache, handlers>>

\* The caller takes the result; the next operation can start.
Return ==
    /\ call # Idle
    /\ call' = Idle
    /\ reply' = NoValue
    /\ UNCHANGED <<data, columns, cache, handlers>>

InitNoData ==
    /\ data = <<>>
    /\ columns = {}
    /\ cache = NoValue
    /\ call = Idle
    /\ reply = NoValue
    /\ handlers = [h \in Handlers |-> IdleHandler]

NextRange == ParseMonthRange \/ Return

SpecRange == InitNoData /\ [][NextRange]_vars

\* repository.get_forecasts(country, grid_ids, months, metrics,
\* metric_constraints), called on the DataLoader directly.
RepositoryGetForecasts ==
    /\ call = Idle
    /\ \E a \in FilterArgs \cup ConstraintArgs \cup MixedArgs \cup ProjectionArgs :
          LET df == load_data(cache, data, columns)
          IN  /\ cache' = df
              /\ call' = [op |-> "repository.get_forecasts", args |-> a]
              /\ reply' = get_forecasts(df, a.country, a.grid_ids, a.months,
                                        a.metrics, a.metric_constraints)
    /\ UNCHANGED <<data, columns, handlers>>

\* The TTL of the cache entry runs out.
Expire ==
    /\ call = Idle
    /\ cache # NoValue
    /\ cache' = NoValue
    /\ UNCHANGED <<data, columns, call, reply, handlers>>

InitData ==
    /\ columns \in ColumnSets
    /\ data \in Datasets(columns)
    /\ cache = NoValue
    /\ call = Idle
    /\ reply = NoValue
    /\ handlers = [h \in Handlers |-> IdleHandler]

NextRepository == RepositoryGetForecasts \/ Expire \/ Return

SpecRepository == InitData /\ [][NextRepository]_vars

\* GET /forecasts with the request's query parameters.
RouteGetForecasts ==
    /\ call = Idle
    /\ \E request \in Requests :
          LET out == route_get_forecasts(request, cache, data, columns)
          IN  /\ cache' = out.cache
              /\ call' = [op |-> "GET /forecasts", request |-> request]
              /\ reply' = out.reply
    /\ UNCHANGED <<data, columns, handlers>>

NextRoute == RouteGetForecasts \/ Expire \/ Return

SpecRoute == InitData /\ [][NextRoute]_vars

\* The parser applied to one raw metric filter expression.
ParseMetricFilter ==
    /\ call = Idle
    /\ \E expr \in FilterExpressions :
          /\ call' = [op |-> "parse_metric_filter", expr |-> expr]
          /\ reply' = parse_metric_filter(expr)
    /\ UNCHANGED <<data, columns, cache, handlers>>

NextParse == ParseMetricFilter \/ Return

SpecParse == InitNoData /\ [][NextParse]_vars

\* service.get_forecast_summary(forecasts), called directly.
GetForecastSummary ==
    /\ call = Idle
    /\ \E forecasts \in ForecastLists :
          /\ call' = [op |-> "get_forecast_summary", forecasts |-> forecasts]
          /\ reply' = get_forecast_summary(forecasts)
    /\ UNCHANGED <<data, columns, cache, handlers>>

NextSummary == GetForecastSummary \/ Return

SpecSummary == InitNoData /\ [][NextSummary]_vars

\* ForecastMetrics(**kwargs), constructed directly.
ConstructForecastMetrics ==
    /\ call = Idle
    /\ \E kwargs \in MetricsInputs :
          /\ call' = [op |-> "ForecastMetrics", kwargs |-> kwargs]
          /\ reply' = ForecastMetrics(kwargs)
    /\ UNCHANGED <<data, columns, cache, handlers>>

NextMetrics == ConstructForecastMetrics \/ Return

SpecMetrics == InitNoData /\ [][NextMetrics]_vars

\* ForecastQuery(**kwargs), constructed directly.
ConstructForecastQuery ==
    /\ call = Idle
    /\ \E kwargs \in QueryInputs :
          /\ call' = [op |-> "ForecastQuery", kwargs |-> kwargs]
          /\ reply' = ForecastQuery(kwargs)
    /\ UNCHANGED <<data, columns, cache, handlers>>

NextQuery == ConstructForecastQuery \/ Return

SpecQuery == InitNoData /\ [][NextQuery]_vars

\* A request to a data route, with settings.api_key as configured and the
\* X-API-Key header as sent.
ProtectedRequest ==
    /\ call = Idle
    /\ \E api_key \in KeyArgs, x_api_key \in KeyArgs :
          /\ call' = [op |-> "protected request", api_key |-> api_key,
                      x_api_key |-> x_api_key]
          /\ reply' = protected_route(api_key, x_api_key)
    /\ UNCHANGED <<data, columns, cache, handlers>>

NextAuth == ProtectedRequest \/ Return

SpecAuth == InitNoData /\ [][NextAuth]_vars

\* Month ranges through both doors: parse_month_range called directly and
\* the /forecasts route.
NextMonths == ParseMonthRange \/ RouteGetForecasts \/ Expire \/ Return

SpecMonths == InitData /\ [][NextMonths]_vars

\* The statement a repository call goes on with once _load_data has returned.
Evaluating(op) == IF op = "get_forecasts" THEN "filter" ELSE "compute"

\* EventLoopFree for handlers that are run in a thread pool: a handler starts
\* whatever the others are doing.
EventLoopFree_Threadpool(h) == TRUE

\* The handlers are coroutines (async def) that call the repository without
\* awaiting anything, so the event loop starts a handler only when no other
\* handler is in the middle of its body.
EventLoopFree(h) ==
    \A g \in Handlers \ {h} : handlers[g].pc \in {"idle", "done"}

\* The server accepts a request and its handler calls the repository.
BeginRequest ==
    /\ \E h \in Handlers, c \in ServerCalls :
          /\ handlers[h].pc = "idle"
          /\ EventLoopFree(h)
          /\ handlers' = [handlers EXCEPT
                ![h] = [IdleHandler EXCEPT !.pc = "check", !.op = c.op,
                                           !.args = c.args]]
    /\ UNCHANGED <<data, columns, cache, call, reply>>

\* _load_data: if cache_key in self.cache.
CacheCheck ==
    /\ \E h \in Handlers :
          /\ handlers[h].pc = "check"
          /\ handlers' = [handlers EXCEPT
                ![h].pc = IF CacheHit(cache) THEN "read" ELSE "loading",
                ![h].missed = ~CacheHit(cache)]
    /\ UNCHANGED <<data, columns, cache, call, reply>>

\* _load_data: return self.cache[cache_key], which raises KeyError when the
\* entry has expired since the check.
CacheRead ==
    /\ \E h \in Handlers :
          /\ handlers[h].pc = "read"
          /\ handlers' = [handlers EXCEPT
                ![h] = IF cache # NoValue
                       THEN [@ EXCEPT !.pc = Evaluating(handlers[h].op), !.df = cache,
                                      !.snapshots = Append(@, cache)]
                       ELSE [@ EXCEPT !.pc = "done", !.reply = KeyError]]
    /\ UNCHANGED <<data, columns, cache, call, reply>>

\* _load_data: df = self._load_local_data(), the frame the backend holds.
BackendLoad ==
    /\ \E h \in Handlers :
          /\ handlers[h].pc = "loading"
          /\ LET df == [rows |-> data, columns |-> columns]
             IN  handlers' = [handlers EXCEPT
                    ![h] = [@ EXCEPT !.pc = "store", !.df = df,
                                     !.snapshots = Append(@, df)]]
    /\ UNCHANGED <<data, columns, cache, call, reply>>

\* _load_data: self.cache[cache_key] = df; return df.
CacheStore ==
    /\ \E h \in Handlers :
          /\ handlers[h].pc = "store"
          /\ cache' = handlers[h].df
          /\ handlers' = [handlers EXCEPT ![h].pc = Evaluating(handlers[h].op)]
    /\ UNCHANGED <<data, columns, call, reply>>

\* Filter with the narrowed frame stored under the cache key.
Filter_CachesFiltered ==
    /\ \E h \in Handlers :
          /\ handlers[h].pc = "filter"
          /\ LET a == handlers[h].args
                 filtered == FilteredRows(handlers[h].df, a.country, a.grid_ids,
                                          a.months, a.metric_constraints)
             IN  /\ handlers' = [handlers EXCEPT
                       ![h] = IF filtered.ok
                              THEN [@ EXCEPT !.pc = "build", !.rows = filtered.value]
                              ELSE [@ EXCEPT !.pc = "done", !.reply = filtered]]
                 /\ cache' = IF filtered.ok
                             THEN [rows |-> filtered.value,
                                   columns |-> handlers[h].df.columns]
                             ELSE cache
    /\ UNCHANGED <<data, columns, call, reply>>

\* get_forecasts: the masks and the constraint loop, on the local df.
Filter ==
    /\ \E h \in Handlers :
          /\ handlers[h].pc = "filter"
          /\ LET a == handlers[h].args
                 filtered == FilteredRows(handlers[h].df, a.country, a.grid_ids,
                                          a.months, a.metric_constraints)
             IN  handlers' = [handlers EXCEPT
                    ![h] = IF filtered.ok
                           THEN [@ EXCEPT !.pc = "build", !.rows = filtered.value]
                           ELSE [@ EXCEPT !.pc = "done", !.reply = filtered]]
    /\ UNCHANGED <<data, columns, cache, call, reply>>

\* Build with the frame fetched again by a second call of _load_data.
Build_Reload ==
    /\ \E h \in Handlers :
          /\ handlers[h].pc = "build"
          /\ LET a == handlers[h].args
                 df == load_data(cache, data, columns)
                 filtered == FilteredRows(df, a.country, a.grid_ids, a.months,
                                          a.metric_constraints)
                 selected_metrics ==
                     IF Truthy(a.metrics) THEN a.metrics.v ELSE ALL_METRIC_NAMES
             IN  handlers' = [handlers EXCEPT
                    ![h] = [@ EXCEPT !.pc = "done", !.df = df,
                                     !.snapshots = Append(@, df),
                                     !.reply = BuildForecasts(filtered.value,
                                                              selected_metrics)]]
    /\ UNCHANGED <<data, columns, cache, call, reply>>

\* get_forecasts: the loop over the rows that are left, which builds the
\* forecasts.
Build ==
    /\ \E h \in Handlers :
          /\ handlers[h].pc = "build"
          /\ LET a == handlers[h].args
                 selected_metrics ==
                     IF Truthy(a.metrics) THEN a.metrics.v ELSE ALL_METRIC_NAMES
             IN  handlers' = [handlers EXCEPT
                    ![h] = [@ EXCEPT !.pc = "done",
                                     !.reply = BuildForecasts(handlers[h].rows,
                                                              selected_metrics)]]
    /\ UNCHANGED <<data, columns, cache, call, reply>>

\* get_available_months and get_grid_cells, on the local df.
Compute ==
    /\ \E h \in Handlers :
          /\ handlers[h].pc = "compute"
          /\ handlers' = [handlers EXCEPT
                ![h] = [@ EXCEPT
                          !.pc = "done",
                          !.reply =
                             IF handlers[h].op = "get_available_months"
                             THEN get_available_months(handlers[h].df)
                             ELSE get_grid_cells(handlers[h].df,
                                                 handlers[h].args.country)]]
    /\ UNCHANGED <<data, columns, cache, call, reply>>

\* The response is sent; the handler is free again.
Respond ==
    /\ \E h \in Handlers :
          /\ handlers[h].pc = "done"
          /\ handlers' = [handlers EXCEPT ![h] = IdleHandler]
    /\ UNCHANGED <<data, columns, cache, call, reply>>

\* The TTL of the cache entry runs out, whatever the handlers are doing; a
\* handler that is evaluating takes note of it.
EntryExpires ==
    /\ cache # NoValue
    /\ cache' = NoValue
    /\ handlers' = [h \in Handlers |->
                      IF handlers[h].pc \in {"filter", "build", "compute"}
                      THEN [handlers[h] EXCEPT !.expired_during = TRUE]
                      ELSE handlers[h]]
    /\ UNCHANGED <<data, columns, call, reply>>

\* The files of the backend are replaced.
BackendChange ==
    /\ \E d \in ServerDatasets \ {data} : data' = d
    /\ UNCHANGED <<columns, cache, call, reply, handlers>>

InitServer ==
    /\ columns = MetricName
    /\ data \in ServerDatasets
    /\ cache = NoValue
    /\ call = Idle
    /\ reply = NoValue
    /\ handlers = [h \in Handlers |-> IdleHandler]

NextServer ==
    \/ BeginRequest \/ CacheCheck \/ CacheRead \/ BackendLoad \/ CacheStore
    \/ Filter \/ Build \/ Compute \/ Respond \/ EntryExpires \/ BackendChange

SpecServer == InitServer /\ [][NextServer]_vars

----------------------------------------------------------------------------
(* Vocabulary of the properties.                                           *)

\* What identifies a row in a result: the fields a projection leaves alone.
KeyOf(r) == <<r.grid_id, r.country_id, r.month, r.latitude, r.longitude>>

KeysOf(rows) == [i \in DOMAIN rows |-> KeyOf(rows[i])]

CountKey(rows, key) == Cardinality({i \in DOMAIN rows : KeyOf(rows[i]) = key})

\* The forecasts are the rows that satisfy Wanted, each as often as the
\* dataset holds it, and nothing else.
ExactlyRows(forecasts, rows, Wanted(_)) ==
    /\ \A i \in DOMAIN rows :
          CountKey(forecasts, KeyOf(rows[i])) =
              IF Wanted(rows[i]) THEN CountKey(rows, KeyOf(rows[i])) ELSE 0
    /\ \A i \in DOMAIN forecasts : \E j \in DOMAIN rows :
          KeyOf(forecasts[i]) = KeyOf(rows[j])

\* Exactly three ASCII digits.
IsCountryCode(text) ==
    Len(text) = 3 /\ \A i \in DOMAIN text : IsAsciiDigit(text[i])

\* The row has the constraint's metric column and its value compares as the
\* constraint says.
Satisfies(row, constraint) ==
    /\ constraint.metric \in DOMAIN row.metrics
    /\ LET x == row.metrics[constraint.metric]
           v == constraint.value
       IN  \/ constraint.operator = "gt" /\ x > v
           \/ constraint.operator = "gte" /\ (x > v \/ x = v)
           \/ constraint.operator = "lt" /\ x < v
           \/ constraint.operator = "lte" /\ (x < v \/ x = v)

\* The metric keys a projection asks for.
Requested(metrics) == IF Truthy(metrics) THEN Range(metrics.v) ELSE MetricName

\* Building the row's record with this projection raises no validation error.
Constructible(row, metrics) ==
    LET keys == Requested(metrics) \cap DOMAIN row.metrics
    IN  /\ keys # {}
        /\ \A k \in keys : row.metrics[k] >= 0
        /\ \A k \in keys \cap ProbabilityFields : row.metrics[k] <= 100
        /\ \A c \in {"50", "90", "99"} :
              LET low == CHOOSE k \in MetricName :
                             \E p \in {<<"ci_50_low", "50">>, <<"ci_90_low", "90">>,
                                       <<"ci_99_low", "99">>} : p = <<k, c>>
                  high == CHOOSE k \in MetricName :
                             \E p \in {<<"ci_50_high", "50">>, <<"ci_90_high", "90">>,
                                       <<"ci_99_high", "99">>} : p = <<k, c>>
              IN  {low, high} \subseteq keys => row.metrics[low] <= row.metrics[high]

IsRepositoryCall == call # Idle /\ call.op = "repository.get_forecasts"

----------------------------------------------------------------------------
(* Properties.                                                             *)

\* C1: get_forecasts with country = c, a valid 3-digit code, and no other
\* filter returns exactly the dataset rows whose country_id is c, none with
\* another country_id and none left out; it raises only when one of those
\* rows cannot be built into a record.
C1_CountryFilterExact ==
    (/\ IsRepositoryCall
     /\ call.args.country.given /\ IsCountryCode(call.args.country.v)
     /\ ~call.args.grid_ids.given /\ ~call.args.months.given
     /\ ~call.args.metric_constraints.given)
    => LET c == call.args.country.v
           Wanted(r) == r.country_id = c
       IN  IF reply.ok
           THEN /\ ExactlyRows(reply.value, data, Wanted)
                /\ \A i \in DOMAIN reply.value : reply.value[i].country_id = c
           ELSE \E i \in DOMAIN data :
                   Wanted(data[i]) /\ ~Constructible(data[i], call.args.metrics)

\* C1's case: a country-only call on a dataset with rows of two countries
\* returned the rows of one of them.
C1_Witness ==
    /\ IsRepositoryCall
    /\ call.args.country = Some(C800)
    /\ ~call.args.grid_ids.given /\ ~call.args.months.given
    /\ ~call.args.metric_constraints.given
    /\ reply.ok /\ Len(reply.value) = 1
    /\ \E i \in DOMAIN data : data[i].country_id = C074

\* C2: get_forecasts with a list of metric constraints returns exactly the
\* rows for which every constraint's comparison of the named column against
\* the constraint value holds (logical AND); a row whose value equals the
\* constraint value is kept only by >= and <=.
C2_ConstraintsConjunctive ==
    (/\ IsRepositoryCall
     /\ Truthy(call.args.metric_constraints)
     /\ ~call.args.country.given /\ ~call.args.grid_ids.given
     /\ ~call.args.months.given
     /\ reply.ok)
    => LET cs == call.args.metric_constraints.v
           Wanted(r) == \A i \in DOMAIN cs : Satisfies(r, cs[i])
       IN  ExactlyRows(reply.value, data, Wanted)

\* C2's case: two constraints, a row whose map equals the constraint value
\* kept by >=, and another row of the dataset dropped.
C2_Witness ==
    /\ IsRepositoryCall
    /\ Truthy(call.args.metric_constraints)
    /\ Len(call.args.metric_constraints.v) = 2
    /\ \E i \in 1..2 :
          call.args.metric_constraints.v[i] =
              [metric |-> "map", operator |-> "gte", value |-> 4000]
    /\ reply.ok /\ Len(reply.value) = 1 /\ Len(data) = 2
    /\ \E i \in DOMAIN data : data[i].metrics["map"] = 4000
                                /\ KeyOf(data[i]) = KeyOf(reply.value[1])

----------------------------------------------------------------------------
(* Month ranges.                                                           *)

IsRangeCall == call # Idle /\ call.op = "parse_month_range"

\* The index of the month a YYYY-MM text names, read digit by digit.
IndexOfText(text) == ToInt(SubSeq(text, 1, 4)) * 12 + ToInt(SubSeq(text, 6, 7)) - 1

\* C5: for every pair of valid calendar months start <= end,
\* parse_month_range("start:end") returns the months from start to end in
\* ascending order, one per calendar month with no gap and no duplicate
\* (December is followed by January of the next year), each written YYYY-MM;
\* for start = end the list is exactly [start].
C5_RangeExpansion ==
    \A p \in RangePairs :
        (/\ IsRangeCall
         /\ MonthIndex(p[1]) <= MonthIndex(p[2])
         /\ call.month_range = RangeText(p[1], p[2]))
        => /\ reply.ok
           /\ Len(reply.value) = MonthIndex(p[2]) - MonthIndex(p[1]) + 1
           /\ \A i \in DOMAIN reply.value :
                 /\ fromisoformat(reply.value[i])
                 /\ IndexOfText(reply.value[i]) = MonthIndex(p[1]) + i - 1
           /\ (p[1] = p[2] => reply.value = <<MonthText(p[1])>>)

----------------------------------------------------------------------------
(* The /forecasts route.                                                   *)

IsRouteCall == call # Idle /\ call.op = "GET /forecasts"

\* The row passes the request's country step.
CountryWanted(request, r) ==
    Truthy(request.country) => r.country_id = request.country.v

\* The row passes the request's grid step.
GridWanted(request, r) ==
    Truthy(request.grid_ids) => r.grid_id \in Range(request.grid_ids.v)

\* The row's month is in the explicit list or, counted in calendar months,
\* between the two ends of the range; every row passes when neither is set.
MonthWanted(request, r) ==
    LET parts == split(request.month_range.v, ":")
        listed == Truthy(request.months) /\ r.month \in Range(request.months.v)
        ranged == /\ Truthy(request.month_range)
                  /\ IndexOfText(r.month) >= IndexOfText(parts[1])
                  /\ IndexOfText(r.month) <= IndexOfText(parts[2])
    IN  (Truthy(request.months) \/ Truthy(request.month_range))
            => (listed \/ ranged)

\* C4: the rows of an answered request are exactly the dataset rows that pass
\* the country and grid steps and whose month is in the explicit months or in
\* the expanded month_range (their union when both are set, the one that is
\* set otherwise, no month step when neither is set).
C4_MonthsUnion ==
    (IsRouteCall /\ reply.status = 200)
    => LET Wanted(r) == /\ CountryWanted(call.request, r)
                        /\ GridWanted(call.request, r)
                        /\ MonthWanted(call.request, r)
       IN  ExactlyRows(reply.data, data, Wanted)

\* C4's case: months and month_range are both set, and the answer holds a row
\* whose month is only in the list and a row whose month is only in the range.
C4_Witness ==
    /\ IsRouteCall
    /\ call.request.months = Some(<<MonthText(<<2023, 12>>), MonthText(<<2024, 2>>)>>)
    /\ call.request.month_range = Some(RangeText(<<2023, 12>>, <<2024, 1>>))
    /\ reply.status = 200 /\ reply.count = 2
    /\ {reply.data[i].month : i \in 1..2}
           = {MonthText(<<2024, 1>>), MonthText(<<2024, 2>>)}

\* C3: a request that carries 'map>>50' or 'unknown>5' in metric_filters is
\* rejected, and the answer to a request that carries 'map>50' holds only rows
\* whose map is above 50: no supplied expression is silently ignored.
C3_FiltersNotIgnored ==
    (IsRouteCall /\ Truthy(call.request.metric_filters))
    => \A i \in DOMAIN call.request.metric_filters.v :
          LET expr == call.request.metric_filters.v[i]
          IN  /\ expr \in {<<"m", "a", "p", ">", ">", "5", "0">>,
                           <<"u", "n", "k", "n", "o", "w", "n", ">", "5">>}
                     => reply.status \in {400, 422}
              /\ (expr = <<"m", "a", "p", ">", "5", "0">> /\ reply.status = 200)
                     => \A j \in DOMAIN reply.data : reply.data[j].metrics["map"] > 5000

\* C9: a request with a metric filter expression that fails to parse
\* (InvalidFilterSyntax, UnknownMetric or InvalidFilterValue) is rejected as a
\* user-input error.
C9_ParseFailureRejected ==
    (/\ IsRouteCall /\ Truthy(call.request.metric_filters)
     /\ \E i \in DOMAIN call.request.metric_filters.v :
           ~parse_metric_filter(call.request.metric_filters.v[i]).ok)
    => reply.status = 400

\* C10: a request whose country is given and is not exactly 3 ASCII digits
\* fails validation; it is never answered with data.
C10_CountryRejected ==
    (/\ IsRouteCall /\ call.request.country.given
     /\ ~IsCountryCode(call.request.country.v))
    => reply.status = 400

----------------------------------------------------------------------------
(* Projection and the order of filtering and projection.                   *)

\* The dataset row a result record was built from carries these values.
FromRow(forecast, rows) ==
    \E j \in DOMAIN rows :
        /\ KeyOf(rows[j]) = KeyOf(forecast)
        /\ \A k \in DOMAIN forecast.metrics :
              k \in DOMAIN rows[j].metrics /\ forecast.metrics[k] = rows[j].metrics[k]

C7_ConstraintsBeforeProjection ==
    (/\ IsRepositoryCall
     /\ Truthy(call.args.metric_constraints)
     /\ ~call.args.country.given /\ ~call.args.grid_ids.given
     /\ ~call.args.months.given
     /\ reply.ok)
    => LET cs == call.args.metric_constraints.v
           passes(r) == \A i \in DOMAIN cs : Satisfies(r, cs[i])
       IN  KeysOf(reply.value) = KeysOf(SelectSeq(data, passes))

\* C7's case: only map is projected, the constraint is on prob_10, and it
\* drops a row of the dataset.
C7_Witness ==
    /\ IsRepositoryCall
    /\ call.args.metrics = Some(<<"map">>)
    /\ Truthy(call.args.metric_constraints)
    /\ \A i \in DOMAIN call.args.metric_constraints.v :
          call.args.metric_constraints.v[i].metric = "prob_10"
    /\ reply.ok
    /\ Len(reply.value) = 1 /\ Len(data) = 2
    /\ DOMAIN reply.value[1].metrics = {"map"}

----------------------------------------------------------------------------
(* The expression parser.                                                  *)

IsParseCall == call # Idle /\ call.op = "parse_metric_filter"

\* The operator spellings and the members they stand for.
OperatorTexts ==
    [gt |-> <<">">>, gte |-> <<">", "=">>, lt |-> <<"<">>, lte |-> <<"<", "=">>]

\* The well-formed value texts of FilterValues and the floats they denote.
ValueTexts ==
    { <<<<"5", "0">>, 5000>>, <<<<"0", ".", "1">>, 10>>,
      <<<<"5", "0", ".", "0">>, 5000>>, <<<<"-", "5">>, -500>> }

\* C8: parsing <metric><operator><value> yields the constraint
\* {metric, operator, value}; a two-character operator is matched before its
\* one-character prefix, so 'map>=50' is {map, >=, 50.0} and not '>' followed
\* by the value text '=50'.
C8_ParseWellFormed ==
    \A m \in {"map", "prob_10"}, o \in ComparisonOperator, v \in ValueTexts :
        (IsParseCall /\ call.expr = NameText[m] \o OperatorTexts[o] \o v[1])
        => /\ reply.ok
           /\ reply.value = [metric |-> m, operator |-> o, value |-> v[2]]

\* C8's case: 'map>=50' was parsed into {map, >=, 50.0}.
C8_Witness ==
    /\ IsParseCall
    /\ call.expr = <<"m", "a", "p", ">", "=", "5", "0">>
    /\ reply.ok
    /\ reply.value = [metric |-> "map", operator |-> "gte", value |-> 5000]

----------------------------------------------------------------------------
(* Rejected month ranges and months.                                       *)

\* The twelve month numbers as they are written.
MonthNumbers ==
    { <<"0", "1">>, <<"0", "2">>, <<"0", "3">>, <<"0", "4">>, <<"0", "5">>,
      <<"0", "6">>, <<"0", "7">>, <<"0", "8">>, <<"0", "9">>, <<"1", "0">>,
      <<"1", "1">>, <<"1", "2">> }

\* A calendar month in YYYY-MM form: four ASCII digits that are not 0000, a
\* dash and one of the twelve month numbers.
IsYearMonth(text) ==
    /\ Len(text) = 7
    /\ text[5] = "-"
    /\ \A i \in 1..4 : text[i] \in {"0", "1", "2", "3", "4", "5", "6", "7", "8", "9"}
    /\ SubSeq(text, 1, 4) # <<"0", "0", "0", "0">>
    /\ SubSeq(text, 6, 7) \in MonthNumbers

\* The number of colons in the text.
Colons(text) == Cardinality({i \in DOMAIN text : text[i] = ":"})

\* start:end with two calendar months, start strictly after end.
IsReversedRange(text) ==
    /\ Len(text) = 15 /\ text[8] = ":"
    /\ IsYearMonth(SubSeq(text, 1, 7)) /\ IsYearMonth(SubSeq(text, 9, 15))
    /\ IndexOfText(SubSeq(text, 1, 7)) > IndexOfText(SubSeq(text, 9, 15))

OrderError == "Start month must be before end month"

\* C11: for a range whose start month is strictly after its end month,
\* parse_month_range raises the range-order error and returns no list, empty
\* or partial; a request with such a range is rejected (400), with the
\* range-order error as its detail when its months are valid.
C11_ReversedRangeRejected ==
    /\ (IsRangeCall /\ IsReversedRange(call.month_range))
          => /\ ~reply.ok
             /\ DOMAIN reply = {"ok", "error", "detail"}
             /\ reply.error = "ValueError" /\ reply.detail = OrderError
    /\ (/\ IsRouteCall /\ call.request.month_range.given
        /\ IsReversedRange(call.request.month_range.v))
          => /\ reply.status = 400
             /\ (\A i \in DOMAIN call.request.months.v :
                    IsYearMonth(call.request.months.v[i]))
                   => reply.detail = OrderError

\* C11's case: a request with the range 2024-02:2024-01 was rejected with the
\* range-order error.
C11_Witness ==
    /\ IsRouteCall
    /\ call.request.month_range = Some(RangeText(<<2024, 2>>, <<2024, 1>>))
    /\ reply.status = 400 /\ reply.detail = OrderError

FormatError == "Invalid month range format"

QueryError == "validation error for ForecastQuery"

\* C12: a month_range string that does not split on ':' into exactly two
\* parts is rejected with a range-format error by parse_month_range, and by
\* query validation before the service is called.
C12_BadSplitRejected ==
    /\ (IsRangeCall /\ Colons(call.month_range) # 1)
          => (~reply.ok /\ reply.detail = FormatError)
    /\ (/\ IsRouteCall /\ call.request.month_range.given
        /\ Colons(call.request.month_range.v) # 1)
          => (reply.status = 400 /\ reply.detail = QueryError)

\* C13: a request with an entry of months, or one of the two parts of
\* month_range, that is not a calendar month in YYYY-MM form (month 13, month
\* 00, a one-digit month) fails query validation; in every answered request
\* the entries of months and the two parts of month_range, the month strings
\* the month filter is built from, are calendar months in YYYY-MM form.
C13_MonthsValidated ==
    IsRouteCall
    => LET months == call.request.months
           month_range == call.request.month_range
           parts == split(month_range.v, ":")
           bad_entry == \E i \in DOMAIN months.v : ~IsYearMonth(months.v[i])
           bad_part == /\ Truthy(month_range) /\ Len(parts) = 2
                       /\ \E i \in 1..2 : ~IsYearMonth(parts[i])
       IN  /\ (bad_entry \/ bad_part)
                 => (reply.status = 400 /\ reply.detail = QueryError)
           /\ reply.status = 200
                 => /\ \A i \in DOMAIN months.v : IsYearMonth(months.v[i])
                    /\ Truthy(month_range)
                          => (Len(parts) = 2 /\ \A i \in 1..2 : IsYearMonth(parts[i]))

\* C13's case: a request whose months hold a calendar month and month 00
\* failed validation.
C13_Witness ==
    /\ IsRouteCall
    /\ call.request.months =
           Some(<<MonthText(<<2024, 1>>), <<"2", "0", "2", "4", "-", "0", "0">>>>)
    /\ ~call.request.month_range.given
    /\ reply.status = 400 /\ reply.detail = QueryError

----------------------------------------------------------------------------
(* Order of the result and order of the filters.                           *)

\* a is b with some of its elements taken out.
RECURSIVE IsSubseq(_, _)
IsSubseq(a, b) ==
    IF a = <<>> THEN TRUE
    ELSE IF b = <<>> THEN FALSE
    ELSE IF Head(a) = Head(b) THEN IsSubseq(Tail(a), Tail(b))
    ELSE IsSubseq(a, Tail(b))

\* C14: whatever the filters, the records get_forecasts returns are rows of
\* the dataset in the dataset's own order: the result is the dataset with
\* some rows taken out, never re-sorted.
C14_DatasetOrderKept ==
    (IsRepositoryCall /\ reply.ok)
    => IsSubseq(KeysOf(reply.value), KeysOf(data))

\* C14's case: a dataset whose grid ids and country codes run downwards, and
\* a call filtered by month that returned both of its rows in the dataset's
\* order.
C14_Witness ==
    /\ IsRepositoryCall
    /\ Truthy(call.args.months)
    /\ Len(data) = 2
    /\ data[1].grid_id > data[2].grid_id
    /\ data[1].country_id = C800 /\ data[2].country_id = C074
    /\ reply.ok /\ Len(reply.value) = 2
    /\ KeysOf(reply.value) = KeysOf(data)

\* The four filter steps of get_forecasts.
Steps == {"country", "grid_ids", "months", "metric_constraints"}

\* Every order the four steps can be applied in.
Orders == {o \in [1..4 -> Steps] : \A i, j \in 1..4 : o[i] = o[j] => i = j}

\* One step of get_forecasts applied to the rows that are left.
ApplyStep(rows, step, args) ==
    CASE step = "country" -> FilterCountry(rows, args.country)
      [] step = "grid_ids" -> FilterGridIds(rows, args.grid_ids)
      [] step = "months" -> FilterMonths(rows, args.months)
      [] step = "metric_constraints" ->
            IF Truthy(args.metric_constraints)
            THEN ApplyConstraints(rows, columns, args.metric_constraints.v, 1).value
            ELSE rows

\* The steps applied to the rows in the given order, from step i on.
RECURSIVE ApplyInOrder(_, _, _, _)
ApplyInOrder(rows, order, args, i) ==
    IF i > Len(order) THEN rows
    ELSE ApplyInOrder(ApplyStep(rows, order[i], args), order, args, i + 1)

\* The row passes every filter the call sets.
PassesAll(r, args) ==
    /\ Truthy(args.country) => r.country_id = args.country.v
    /\ Truthy(args.grid_ids) => r.grid_id \in Range(args.grid_ids.v)
    /\ Truthy(args.months) => r.month \in Range(args.months.v)
    /\ Truthy(args.metric_constraints)
          => \A i \in DOMAIN args.metric_constraints.v :
                Satisfies(r, args.metric_constraints.v[i])

\* C15: the filters are conjunctive and commute: get_forecasts returns the
\* rows that pass the country, grid-id, month and constraint filters all at
\* once, and applying the four steps to the dataset in any of their 24 orders
\* leaves the same rows as the order get_forecasts uses.
C15_FiltersCommute ==
    (IsRepositoryCall /\ reply.ok)
    => /\ LET Wanted(r) == PassesAll(r, call.args)
          IN  ExactlyRows(reply.value, data, Wanted)
       /\ \A o \in Orders :
             KeysOf(ApplyInOrder(data, o, call.args, 1)) = KeysOf(reply.value)

\* C15's case: a call that sets all four filters, each of which matters to
\* some row, on a dataset of which it returned one row and dropped the other.
C15_Witness ==
    /\ IsRepositoryCall
    /\ Truthy(call.args.country) /\ Truthy(call.args.grid_ids)
    /\ Truthy(call.args.months) /\ Truthy(call.args.metric_constraints)
    /\ reply.ok /\ Len(reply.value) = 1 /\ Len(data) = 2

----------------------------------------------------------------------------
(* Summaries.                                                              *)

IsSummaryCall == call # Idle /\ call.op = "get_forecast_summary"

\* The list holds each string of S once, in ascending order.
IsSortedListOf(list, S) ==
    /\ Range(list) = S
    /\ \A i, j \in DOMAIN list : i < j => TextLess(list[i], list[j])

\* The map values of the records that have one, in record order.
PresentMaps(forecasts) ==
    LET has_map(f) == "map" \in DOMAIN f.metrics
        present == SelectSeq(forecasts, has_map)
    IN  [i \in DOMAIN present |-> present[i].metrics["map"]]

\* C16: get_forecast_summary on an empty list returns count 0, no countries,
\* no months, the number 0 as grid_cells, and a metrics_summary with avg 0 and
\* min and max None.
C16_EmptySummary ==
    (IsSummaryCall /\ call.forecasts = <<>>)
    => /\ reply.ok
       /\ reply.value.count = 0
       /\ reply.value.countries = <<>> /\ reply.value.months = <<>>
       /\ reply.value.grid_cells = PyInt(0)
       /\ "metrics_summary" \in DOMAIN reply.value
       /\ reply.value.metrics_summary.avg_map = 0
       /\ reply.value.metrics_summary.min_map = NoValue
       /\ reply.value.metrics_summary.max_map = NoValue

\* C17: for every non-empty list of forecasts get_forecast_summary returns
\* count = the number of records, countries and months = the sorted lists of
\* the distinct country_id and month values, and grid_cells = the number of
\* distinct grid_id values.
C17_SummaryCounts ==
    (IsSummaryCall /\ call.forecasts # <<>>)
    => LET forecasts == call.forecasts
       IN  /\ reply.ok
           /\ reply.value.count = Len(forecasts)
           /\ IsSortedListOf(reply.value.countries,
                             {forecasts[i].country_id : i \in DOMAIN forecasts})
           /\ IsSortedListOf(reply.value.months,
                             {forecasts[i].month : i \in DOMAIN forecasts})
           /\ reply.value.grid_cells =
                  PyInt(Cardinality({forecasts[i].grid_id : i \in DOMAIN forecasts}))

\* C18: get_forecast_summary on a list with a record that has no map value
\* returns a summary and does not raise, and avg, min and max are taken over
\* the records that have a map value only.
C18_PartialRecordsTolerated ==
    (/\ IsSummaryCall
     /\ \E i \in DOMAIN call.forecasts : "map" \notin DOMAIN call.forecasts[i].metrics)
    => LET present == PresentMaps(call.forecasts)
       IN  /\ reply.ok
           /\ present # <<>>
                 => /\ reply.value.metrics_summary.avg_map
                          = RoundDiv(Sum(present), Len(present))
                    /\ reply.value.metrics_summary.min_map = Min(Range(present))
                    /\ reply.value.metrics_summary.max_map = Max(Range(present))

----------------------------------------------------------------------------
(* Record invariants.                                                      *)

IsMetricsCall == call # Idle /\ call.op = "ForecastMetrics"

\* The lower and the upper bound of each confidence level.
CiPairs ==
    { <<"ci_50_low", "ci_50_high">>, <<"ci_90_low", "ci_90_high">>,
      <<"ci_99_low", "ci_99_high">> }

CountFields ==
    { "map", "ci_50_low", "ci_50_high", "ci_90_low", "ci_90_high",
      "ci_99_low", "ci_99_high" }

\* The value is in the domain of its field: at least 0 for a count, from 0
\* to 1 (100 hundredths) for a probability.
InDomain(name, value) ==
    IF name \in CountFields THEN value >= 0 ELSE value >= 0 /\ value <= 100

NoFilters ==
    /\ ~call.args.country.given /\ ~call.args.grid_ids.given
    /\ ~call.args.months.given /\ ~call.args.metric_constraints.given

\* C21: every record returned by get_forecasts carries at least one metric
\* value, whatever the projection, and a call without filters in which the
\* projection leaves some row of the dataset without any metric fails with
\* the validation error of the record's construction.
C21_AtLeastOneMetric ==
    IsRepositoryCall
    => /\ reply.ok
             => \A i \in DOMAIN reply.value : DOMAIN reply.value[i].metrics # {}
       /\ (/\ NoFilters
           /\ \E i \in DOMAIN data :
                 Requested(call.args.metrics) \cap DOMAIN data[i].metrics = {})
             => (~reply.ok /\ reply.error = "ValidationError")

\* C21's case: prob_10 alone was requested from a dataset whose frame has no
\* prob_10 column, and the call failed with the validation error.
C21_Witness ==
    /\ IsRepositoryCall /\ NoFilters
    /\ call.args.metrics = Some(<<"prob_10">>)
    /\ data # <<>> /\ "prob_10" \notin columns
    /\ ~reply.ok /\ reply.error = "ValidationError"

----------------------------------------------------------------------------
(* The validated query.                                                    *)

IsQueryCall == call # Idle /\ call.op = "ForecastQuery"

\* The position of the first occurrence of x in list.
FirstIndex(list, x) ==
    CHOOSE i \in DOMAIN list :
        list[i] = x /\ \A j \in DOMAIN list : list[j] = x => i <= j

\* No element of the list occurs twice.
DuplicateFree(list) ==
    \A i, j \in DOMAIN list : list[i] = list[j] => i = j

\* C22: the metrics list of a validated query holds each requested metric
\* exactly once, in the order of the first appearances in the requested
\* list, and a requested list without duplicates is returned unchanged.
C22_MetricsDeduplicated ==
    (IsQueryCall /\ reply.ok /\ call.kwargs.metrics.given)
    => LET requested == call.kwargs.metrics.v
           validated == reply.value.metrics
       IN  /\ validated.given
           /\ DuplicateFree(validated.v)
           /\ Range(validated.v) = Range(requested)
           /\ \A i, j \in DOMAIN validated.v :
                 i < j => FirstIndex(requested, validated.v[i])
                              < FirstIndex(requested, validated.v[j])
           /\ DuplicateFree(requested) => validated.v = requested

\* C22's case: the list prob_1, map, prob_1, map was validated to prob_1, map.
C22_Witness ==
    /\ IsQueryCall /\ reply.ok
    /\ call.kwargs.metrics = Some(<<"prob_1", "map", "prob_1", "map">>)
    /\ reply.value.metrics = Some(<<"prob_1", "map">>)

----------------------------------------------------------------------------
(* Errors.                                                                 *)

\* C23: a metric constraint on a column the loaded frame does not have fails
\* the call, no forecasts are returned, and the failure is one the handler
\* answers as an internal error (500), not as a rejection of the input (400).
C23_SchemaMismatchInternal ==
    (/\ IsRepositoryCall
     /\ Truthy(call.args.metric_constraints)
     /\ \E i \in DOMAIN call.args.metric_constraints.v :
           call.args.metric_constraints.v[i].metric \notin columns)
    => (~reply.ok /\ HandlerStatus(reply) = 500)

----------------------------------------------------------------------------
(* Snapshots, the cache and the requests of the server.                    *)

\* The record get_forecasts builds from a row of the frame for the call's
\* projection.
RecordOf(row, args) ==
    [grid_id |-> row.grid_id, latitude |-> row.latitude,
     longitude |-> row.longitude, country_id |-> row.country_id,
     month |-> row.month,
     metrics |-> [k \in Requested(args.metrics) \cap DOMAIN row.metrics |->
                     row.metrics[k]]]

\* C24: a get_forecasts call obtains the dataset snapshot once, before it
\* filters, and the rows it works on and the records it returns all come
\* from that one snapshot, also when the cache entry expires or the backend
\* and the cache are replaced while the call is evaluating.
C24_SingleSnapshot ==
    \A h \in Handlers :
       LET me == handlers[h]
       IN  me.op = "get_forecasts"
           => /\ me.pc \in {"filter", "build"} => Len(me.snapshots) = 1
              /\ me.pc = "build"
                    => \A i \in DOMAIN me.rows :
                          \E j \in DOMAIN me.snapshots[1].rows :
                             me.rows[i] = me.snapshots[1].rows[j]
              /\ (me.pc = "done" /\ me.reply.ok)
                    => /\ Len(me.snapshots) = 1
                       /\ \A i \in DOMAIN me.reply.value :
                             \E j \in DOMAIN me.snapshots[1].rows :
                                me.reply.value[i]
                                    = RecordOf(me.snapshots[1].rows[j], me.args)

\* C24's case: a get_forecasts call returned a record although the cache
\* entry expired while it was evaluating and the backend now holds other
\* rows than the snapshot.
C24_Witness ==
    \E h \in Handlers :
       /\ handlers[h].op = "get_forecasts" /\ handlers[h].pc = "done"
       /\ handlers[h].reply.ok /\ handlers[h].reply.value # <<>>
       /\ handlers[h].expired_during
       /\ data # handlers[h].snapshots[1].rows

\* Handler h takes a step of its get_forecasts call.
CallStep(h) ==
    /\ handlers[h].op = "get_forecasts"
    /\ handlers[h].pc \notin {"idle", "done"}
    /\ handlers'[h].pc # handlers[h].pc

InFlight == {h \in Handlers : handlers[h].pc \in {"loading", "store"}}

C29_CacheReused ==
    [][\A h \in Handlers :
          handlers'[h].pc # handlers[h].pc
          => /\ (handlers[h].pc = "check" /\ cache # NoValue)
                   => handlers'[h].pc = "read"
             /\ (handlers[h].pc = "read" /\ cache # NoValue)
                   => /\ handlers'[h].pc \in {"filter", "compute"}
                      /\ handlers'[h].df = cache
             /\ handlers[h].pc = "loading" => cache = NoValue
             /\ handlers[h].pc = "store" => cache' = handlers[h].df]_vars

\* C29's case: one request loaded the dataset, and a later request of
\* another kind was answered from the same cached snapshot.
C29_Witness ==
    \E h, g \in Handlers :
       /\ handlers[h].pc = "done" /\ handlers[h].missed
       /\ handlers[g].pc = "done" /\ ~handlers[g].missed
       /\ handlers[g].op # handlers[h].op
       /\ handlers[g].reply.ok
       /\ handlers[g].snapshots = handlers[h].snapshots
       /\ cache = handlers[h].snapshots[1]

----------------------------------------------------------------------------
(* Validation before the repository is called.                             *)

\* start:end with two calendar months.
IsMonthRange(text) ==
    /\ Len(text) = 15 /\ text[8] = ":"
    /\ IsYearMonth(SubSeq(text, 1, 7)) /\ IsYearMonth(SubSeq(text, 9, 15))

\* The request fails validation: a country that is not three ASCII digits, a
\* month that is no calendar month, a month_range that is not start:end or
\* runs backwards, a metric outside the catalog, or a filter expression that
\* does not parse.
FailsValidation(request) ==
    \/ request.country.given /\ ~IsCountryCode(request.country.v)
    \/ request.months.given
          /\ \E i \in DOMAIN request.months.v : ~IsYearMonth(request.months.v[i])
    \/ request.month_range.given
          /\ (~IsMonthRange(request.month_range.v)
                 \/ IsReversedRange(request.month_range.v))
    \/ request.metrics.given
          /\ \E i \in DOMAIN request.metrics.v : request.metrics.v[i] \notin MetricName
    \/ Truthy(request.metric_filters)
          /\ \E i \in DOMAIN request.metric_filters.v :
                ~parse_metric_filter(request.metric_filters.v[i]).ok

\* C26: a request that fails validation is rejected (400 or 422) and the
\* repository is not called for it: the dataset is not loaded, so the cache
\* is as it was before the request.
C26_RejectedBeforeLoad ==
    [][(/\ call = Idle /\ call' # Idle /\ call'.op = "GET /forecasts"
        /\ FailsValidation(call'.request))
       => (reply'.status \in {400, 422} /\ cache' = cache)]_vars

----------------------------------------------------------------------------
(* The API key.                                                            *)

IsProtectedRequest == call # Idle /\ call.op = "protected request"

\* A key is configured: settings.api_key is set and is not the empty text.
KeyConfigured == call.api_key.given /\ call.api_key.v # <<>>

\* C27: a request to a data route reaches its handler if and only if no API
\* key is configured or the X-API-Key header equals the configured key; with
\* a key configured, a request whose header is missing or differs is answered
\* 401 and the handler does not run.
C27_KeyRequired ==
    IsProtectedRequest
    => /\ reply.handled
             <=> (~KeyConfigured
                     \/ (call.x_api_key.given /\ call.x_api_key.v = call.api_key.v))
       /\ ~reply.handled => reply.status = 401

\* C27's case: the key s is configured, the header carries S, and the
\* request was answered 401 without its handler running.
C27_Witness ==
    /\ IsProtectedRequest
    /\ call.api_key = Some(<<"s">>) /\ call.x_api_key = Some(<<"S">>)
    /\ reply.status = 401 /\ ~reply.handled

----------------------------------------------------------------------------
(* Empty filters.                                                          *)

\* The argument with an empty string or list replaced by None.
Unset(arg) == IF arg = Some(<<>>) THEN None ELSE arg

\* C30: an empty country string, an empty grid_ids list and an empty months
\* list are each treated as a filter that is not set: the call returns what
\* the same call returns with every empty filter left out.
C30_EmptyFilterIsUnset ==
    IsRepositoryCall
    => reply = get_forecasts(cache, Unset(call.args.country),
                             Unset(call.args.grid_ids), Unset(call.args.months),
                             call.args.metrics, call.args.metric_constraints)

\* C30's case: a call with grid_ids=[], no country and no months returned a
\* record for every row of a dataset that has rows.
C30_Witness ==
    /\ IsRepositoryCall
    /\ call.args.grid_ids = Some(<<>>)
    /\ call.args.country = None /\ call.args.months = None
    /\ call.args.metric_constraints = None
    /\ data # <<>> /\ cache.rows = data
    /\ reply.ok /\ Len(reply.value) = Len(data)

====
